---- MODULE Spec2Model ----
(***************************************************************************)
(* State machine of the bolt front end (yew/src/main.rs and                *)
(* yew/src/process/update.rs): the BoltContext held in GLOBAL_STATE, the   *)
(* reducer `process`, the dispatch of a request (send_request) and the     *)
(* arrival of its response (receive_response).                             *)
(*                                                                         *)
(* Vec indices are 0-based as in the source; a Vec is a TLA+ sequence and  *)
(* At(s, i) reads element i.  An out-of-range index makes the Rust code    *)
(* panic: the operators below return ok = FALSE together with the state    *)
(* as it stands at the panic (writes made before the failing index stay).  *)
(***************************************************************************)
EXTENDS Integers, Sequences, FiniteSets, Bags, TLC

VARIABLES
    bctx,       \* GLOBAL_STATE.bctx without the link handle
    inflight,   \* bag of payloads handed to the executor, not yet answered
    updates,    \* Msg::Update messages sent through link, not yet processed
    panicked,   \* a handler panicked while holding GLOBAL_STATE (mutex poisoned)
    last,       \* the handler that ran last, its arguments and what it returned
    steps,      \* number of handlers run so far
    edits,      \* number of those that edited a request or changed nothing
    selected,   \* history: for every request, the index it was last selected at
    lock,       \* owner of the GLOBAL_STATE mutex: "none", "ui" or "rx"
    ui,         \* the UI path inside BoltApp::update
    rx          \* the listener path inside receive_response

vars == <<bctx, inflight, updates, panicked, last, steps, edits, selected, lock, ui, rx>>

----------------------------------------------------------------------------
(* Bounds of the exploration *)

\* handlers run in one behaviour
MaxSteps == 4
\* of these, handlers that edit the active request, toggle a collection or do nothing
MaxEdits == 1
\* payloads that may be in flight at once
MaxInFlight == 2

----------------------------------------------------------------------------
(* Vec helpers *)

At(s, i) == s[i + 1]

InRange(s, i) == i < Len(s)

\* Vec::remove(i), i in range
RemoveAt(s, i) == SubSeq(s, 1, i) \o SubSeq(s, i + 2, Len(s))

\* s[i] = v, i in range
SetAt(s, i, v) == [s EXCEPT ![i + 1] = v]

----------------------------------------------------------------------------
(* Entity model *)

Home == "Home"
Collections == "Collections"
Pages == {Home, Collections}

TEXT == "TEXT"
JSON == "JSON"

GET == "GET"
POST == "POST"
Methods == {GET, POST}

BlankRow == <<"", "">>

Response_new ==
    [status |-> 0, body |-> "", headers |-> <<>>, time |-> 0, size |-> 0,
     response_type |-> TEXT, request_index |-> 0, failed |-> FALSE]

Request_new ==
    [url |-> "", body |-> "", headers |-> <<BlankRow>>, params |-> <<BlankRow>>,
     method |-> GET, response |-> Response_new, name |-> "New Request ",
     req_tab |-> 1, resp_tab |-> 1]

Collection_new ==
    [name |-> "New Collection ", requests |-> <<>>, collapsed |-> FALSE]

BoltContext_new ==
    [page |-> Home, main_current |-> 0, col_current |-> <<0, 0>>,
     main_col |-> Collection_new, collections |-> <<>>]

\* BoltApp::create: the first request of the working collection
create(b) ==
    [b EXCEPT !.main_col.requests = Append(@, Request_new)]

\* "New Request " + (len + 1).to_string()
NumberedRequest(len) ==
    [Request_new EXCEPT !.name = Request_new.name \o ToString(len + 1)]

NumberedCollection(len) ==
    [Collection_new EXCEPT !.name = Collection_new.name \o ToString(len + 1)]

----------------------------------------------------------------------------
(* Results of a handler *)

Done(b, ret) == [b |-> b, ok |-> TRUE, ret |-> ret, sent |-> <<>>]

Sent(b, ret, payload) == [b |-> b, ok |-> TRUE, ret |-> ret, sent |-> <<payload>>]

Panic(b) == [b |-> b, ok |-> FALSE, ret |-> FALSE, sent |-> <<>>]

----------------------------------------------------------------------------
(* Addressing: the request the current page and selection name *)

TargetOk(b) ==
    IF b.page = Home
    THEN InRange(b.main_col.requests, b.main_current)
    ELSE /\ InRange(b.collections, b.col_current[1])
         /\ InRange(At(b.collections, b.col_current[1]).requests, b.col_current[2])

Target(b) ==
    IF b.page = Home
    THEN At(b.main_col.requests, b.main_current)
    ELSE At(At(b.collections, b.col_current[1]).requests, b.col_current[2])

WithTarget(b, req) ==
    IF b.page = Home
    THEN [b EXCEPT !.main_col.requests[b.main_current + 1] = req]
    ELSE [b EXCEPT !.collections[b.col_current[1] + 1]
                        .requests[b.col_current[2] + 1] = req]

----------------------------------------------------------------------------
(* External collaborators: utils.rs of the front end and the executor *)

\* parse_url: the url with the non-blank param rows merged into its query
RECURSIVE Query(_, _)
Query(params, first) ==
    IF params = <<>> THEN ""
    ELSE IF Head(params)[1] = "" THEN Query(Tail(params), first)
    ELSE (IF first THEN "?" ELSE "&") \o Head(params)[1] \o "=" \o Head(params)[2]
         \o Query(Tail(params), FALSE)

parse_url(url, params) == url \o Query(params, TRUE)

\* pretty-printer and highlighter, black boxes that mark what they were given
format_json(body) == "format_json(" \o body \o ")"

highlight_body(body) == "highlight_body(" \o body \o ")"

\* what the DOM readers get_url, get_body, get_header, get_param, get_method return
Urls == {"u"}
Bodies == {"b"}
Rows == {<<"k", "v">>}

----------------------------------------------------------------------------
(* process: one operator per arm of the match on Msg *)

\* variant: Msg::Nothing asks for a redraw like the other two no-ops
Nothing_Redraw(b) == Done(b, TRUE)

Nothing(b) == Done(b, FALSE)

SelectedMethod(b, meth) ==
    IF TargetOk(b)
    THEN Done(WithTarget(b, [Target(b) EXCEPT !.method = meth]), TRUE)
    ELSE Panic(b)

\* a payload whose url leaves the params out
send_request_RawUrl(request) ==
    [url |-> request.url,
     method |-> request.method,
     body |-> request.body,
     headers |-> request.headers,
     index |-> request.response.request_index]

send_request(request) ==
    [url |-> parse_url(request.url, request.params),
     method |-> request.method,
     body |-> request.body,
     headers |-> request.headers,
     index |-> request.response.request_index]

SendPressed(b) ==
    IF TargetOk(b) THEN Sent(b, TRUE, send_request(Target(b))) ELSE Panic(b)

HelpPressed(b) == Done(b, TRUE)

SetReqTab(b, tab) ==
    IF TargetOk(b)
    THEN Done(WithTarget(b, [Target(b) EXCEPT !.req_tab = tab]), TRUE)
    ELSE Panic(b)

SetRespTab(b, tab) ==
    IF TargetOk(b)
    THEN Done(WithTarget(b, [Target(b) EXCEPT !.resp_tab = tab]), TRUE)
    ELSE Panic(b)

ReqBodyPressed(b) == SetReqTab(b, 1)

ReqHeadersPressed(b) == SetReqTab(b, 3)

ReqParamsPressed(b) == SetReqTab(b, 2)

RespBodyPressed(b) == SetRespTab(b, 1)

RespHeadersPressed(b) == SetRespTab(b, 2)

ReceivedResponse(b) == Done(b, TRUE)

AddHeader(b) ==
    IF TargetOk(b)
    THEN Done(WithTarget(b, [Target(b) EXCEPT !.headers = Append(@, BlankRow)]), TRUE)
    ELSE Panic(b)

\* a removal that drops the row and every row after it
RemoveHeader_Truncate(b, index) ==
    IF TargetOk(b) /\ InRange(Target(b).headers, index)
    THEN Done(WithTarget(b, [Target(b) EXCEPT !.headers = SubSeq(@, 1, index)]), TRUE)
    ELSE Panic(b)

RemoveHeader(b, index) ==
    IF TargetOk(b) /\ InRange(Target(b).headers, index)
    THEN Done(WithTarget(b, [Target(b) EXCEPT !.headers = RemoveAt(@, index)]), TRUE)
    ELSE Panic(b)

AddParam(b) ==
    IF TargetOk(b)
    THEN Done(WithTarget(b, [Target(b) EXCEPT !.params = Append(@, BlankRow)]), TRUE)
    ELSE Panic(b)

AddCollection(b) ==
    Done([b EXCEPT !.collections = Append(@, NumberedCollection(Len(@)))], TRUE)

RemoveCollection(b, index) ==
    IF InRange(b.collections, index)
    THEN Done([b EXCEPT !.collections = RemoveAt(@, index),
                        !.col_current = <<0, 0>>], TRUE)
    ELSE Panic(b)

RemoveParam(b, index) ==
    IF TargetOk(b) /\ InRange(Target(b).params, index)
    THEN Done(WithTarget(b, [Target(b) EXCEPT !.params = RemoveAt(@, index)]), TRUE)
    ELSE Panic(b)

MethodChanged(b, method) ==
    IF TargetOk(b)
    THEN Done(WithTarget(b, [Target(b) EXCEPT !.method = method]), TRUE)
    ELSE Panic(b)

UrlChanged(b, url) ==
    IF TargetOk(b)
    THEN Done(WithTarget(b, [Target(b) EXCEPT !.url = url, !.name = url]), TRUE)
    ELSE Panic(b)

\* a body edit that also renames the request, as the url edit does
BodyChanged_AlsoName(b, body) ==
    IF TargetOk(b)
    THEN Done(WithTarget(b, [Target(b) EXCEPT !.body = body, !.name = body]), TRUE)
    ELSE Panic(b)

BodyChanged(b, body) ==
    IF TargetOk(b)
    THEN Done(WithTarget(b, [Target(b) EXCEPT !.body = body]), TRUE)
    ELSE Panic(b)

HeaderChanged(b, index, header) ==
    IF TargetOk(b) /\ InRange(Target(b).headers, index)
    THEN Done(WithTarget(b, [Target(b) EXCEPT !.headers = SetAt(@, index, header)]), TRUE)
    ELSE Panic(b)

ParamChanged(b, index, param) ==
    IF TargetOk(b) /\ InRange(Target(b).params, index)
    THEN Done(WithTarget(b, [Target(b) EXCEPT !.params = SetAt(@, index, param)]), TRUE)
    ELSE Panic(b)

\* variant: the new request is inserted at the front
AddRequest_Prepend(b) ==
    Done([b EXCEPT !.main_col.requests = <<NumberedRequest(Len(@))>> \o @], TRUE)

AddRequest(b) ==
    Done([b EXCEPT !.main_col.requests = Append(@, NumberedRequest(Len(@)))], TRUE)

AddToCollection(b, index) ==
    IF InRange(b.collections, index)
    THEN Done([b EXCEPT !.collections[index + 1].requests =
                            Append(@, NumberedRequest(Len(@)))], TRUE)
    ELSE Panic(b)

ToggleCollapsed(b, index) ==
    IF InRange(b.collections, index)
    THEN Done([b EXCEPT !.collections[index + 1].collapsed = ~@], TRUE)
    ELSE Panic(b)

\* a removal that leaves main_current alone
ClampMainCurrent_None(len, main_current) == main_current

\* the clamp of main_current after the removal
ClampMainCurrent(len, main_current) ==
    IF len > 0 /\ main_current > len - 1 THEN len - 1 ELSE main_current

RemoveRequest(b, index) ==
    IF InRange(b.main_col.requests, index)
    THEN LET requests == RemoveAt(b.main_col.requests, index)
         IN  Done([b EXCEPT !.main_col.requests = requests,
                            !.main_current = ClampMainCurrent(Len(requests), @)], TRUE)
    ELSE Panic(b)

\* a removal that keeps the selection
RemoveFromCollection_KeepSelection(b, col_index, req_index) ==
    IF /\ InRange(b.collections, col_index)
       /\ InRange(At(b.collections, col_index).requests, req_index)
    THEN Done([b EXCEPT !.collections[col_index + 1].requests = RemoveAt(@, req_index)],
              TRUE)
    ELSE Panic(b)

RemoveFromCollection(b, col_index, req_index) ==
    IF /\ InRange(b.collections, col_index)
       /\ InRange(At(b.collections, col_index).requests, req_index)
    THEN Done([b EXCEPT !.collections[col_index + 1].requests = RemoveAt(@, req_index),
                        !.col_current = <<0, 0>>], TRUE)
    ELSE Panic(b)

\* a selection that does not stamp the request with its index
SelectRequest_NoStamp(b, index) ==
    IF InRange(b.main_col.requests, index)
    THEN Done([b EXCEPT !.main_current = index], TRUE)
    ELSE Panic([b EXCEPT !.main_current = index])

\* variant: selecting gives the request a fresh response carrying the index
SelectRequest_ResetResponse(b, index) ==
    LET b1 == [b EXCEPT !.main_current = index]
    IN  IF InRange(b1.main_col.requests, index)
        THEN Done([b1 EXCEPT !.main_col.requests[index + 1].response =
                                 [Response_new EXCEPT !.request_index = index]], TRUE)
        ELSE Panic(b1)

\* main_current is assigned before requests[index] is indexed
SelectRequest(b, index) ==
    LET b1 == [b EXCEPT !.main_current = index]
    IN  IF InRange(b1.main_col.requests, index)
        THEN Done([b1 EXCEPT !.main_col.requests[index + 1].response.request_index = index],
                  TRUE)
        ELSE Panic(b1)

\* col_current is assigned before collections[col_index].requests[req_index] is indexed
SelectFromCollection(b, col_index, req_index) ==
    LET b1 == [b EXCEPT !.col_current = <<col_index, req_index>>]
    IN  IF /\ InRange(b1.collections, col_index)
           /\ InRange(At(b1.collections, col_index).requests, req_index)
        THEN Done([b1 EXCEPT !.collections[col_index + 1].requests[req_index + 1]
                                 .response.request_index = req_index], TRUE)
        ELSE Panic(b1)

Update(b) == Done(b, TRUE)

SwitchPage(b, page) == Done([b EXCEPT !.page = page], TRUE)

----------------------------------------------------------------------------
(* Response arrival *)

\* a transform that pretty-prints and forgets to highlight
TransformBody_FormatOnly(response) ==
    IF response.response_type = JSON
    THEN [response EXCEPT !.body = format_json(@)]
    ELSE response

\* the body as stored: pretty-printed and highlighted when the response is JSON
TransformBody(response) ==
    IF response.response_type = JSON
    THEN [response EXCEPT !.body = highlight_body(format_json(@))]
    ELSE response

\* the slot the response is written to exists
SlotOk(b, response) ==
    IF b.page = Home
    THEN InRange(b.main_col.requests, response.request_index)
    ELSE /\ InRange(b.collections, b.col_current[1])
         /\ InRange(At(b.collections, b.col_current[1]).requests, b.col_current[2])

\* a write that follows the current selection on the Home page
WriteResponse_AtSelection(b, response) ==
    IF b.page = Home
    THEN [b EXCEPT !.main_col.requests[b.main_current + 1].response = response]
    ELSE [b EXCEPT !.collections[b.col_current[1] + 1]
                        .requests[b.col_current[2] + 1].response = response]

\* a write that follows the index of the response on the Collections page
WriteResponse_AtIndex(b, response) ==
    IF b.page = Home
    THEN [b EXCEPT !.main_col.requests[response.request_index + 1].response = response]
    ELSE [b EXCEPT !.collections[b.col_current[1] + 1]
                        .requests[response.request_index + 1].response = response]

\* the write of the response into its slot
WriteResponse(b, response) ==
    IF b.page = Home
    THEN [b EXCEPT !.main_col.requests[response.request_index + 1].response = response]
    ELSE [b EXCEPT !.collections[b.col_current[1] + 1]
                        .requests[b.col_current[2] + 1].response = response]

receive_response(b, data) ==
    LET response == TransformBody(data)
    IN  IF SlotOk(b, response) THEN Done(WriteResponse(b, response), TRUE) ELSE Panic(b)

\* the executor answers a payload with a response that carries the payload's index
ExecutorReplies(payload) ==
    { [status |-> 200, body |-> "{}", headers |-> <<<<"h", "v">>>>, time |-> 5,
       size |-> 2, response_type |-> t, request_index |-> payload.index,
       failed |-> FALSE] : t \in {TEXT, JSON} }
    \cup
    { [status |-> 0, body |-> "error", headers |-> <<>>, time |-> 0,
       size |-> 0, response_type |-> TEXT, request_index |-> payload.index,
       failed |-> TRUE] }

----------------------------------------------------------------------------
(* Persistence: the structs derive Serialize and Deserialize; a struct is written
   as a JSON object, here the list of its <<key, value>> members in the order of
   the struct's fields, a Vec as an array, an enum as the name of its variant *)

ResponseFields ==
    <<"status", "body", "headers", "time", "size", "response_type", "request_index",
      "failed">>

RequestFields ==
    <<"url", "body", "headers", "params", "method", "response", "name", "req_tab",
      "resp_tab">>

CollectionFields == <<"name", "requests", "collapsed">>

\* a SaveState that forgets the selection inside the collections
SaveStateFields_NoColCurrent == <<"page", "main_current", "main_col", "collections">>

SaveStateFields == <<"page", "main_current", "col_current", "main_col", "collections">>

Range(s) == { s[i] : i \in 1 .. Len(s) }

\* the JSON object of a struct value
Object(fields, value) == [i \in 1 .. Len(fields) |-> <<fields[i], value[fields[i]]>>]

\* the member of a JSON object under a key
Member(object, key) ==
    object[CHOOSE i \in 1 .. Len(object) : object[i][1] = key][2]

\* the struct value of a JSON object
Struct(fields, object) == [f \in Range(fields) |-> Member(object, f)]

Response_to_json(response) == Object(ResponseFields, response)

Response_from_json(object) == Struct(ResponseFields, object)

Request_to_json(request) ==
    Object(RequestFields, [request EXCEPT !.response = Response_to_json(@)])

Request_from_json(object) ==
    [Struct(RequestFields, object) EXCEPT !.response = Response_from_json(@)]

Collection_to_json(collection) ==
    Object(CollectionFields,
           [collection EXCEPT !.requests =
               [i \in 1 .. Len(@) |-> Request_to_json(@[i])]])

Collection_from_json(object) ==
    [Struct(CollectionFields, object) EXCEPT !.requests =
        [i \in 1 .. Len(@) |-> Request_from_json(@[i])]]

\* BoltContext -> SaveState -> JSON document: the link handle is not a field of SaveState
save_state(b) ==
    Object(SaveStateFields,
           [f \in Range(SaveStateFields) |->
               IF f = "main_col" THEN Collection_to_json(b.main_col)
               ELSE IF f = "collections"
               THEN [i \in 1 .. Len(b.collections) |-> Collection_to_json(b.collections[i])]
               ELSE b[f]])

\* JSON document -> SaveState -> BoltContext: the fields of SaveState overwrite
\* those of the context, whatever SaveState does not hold stays as constructed
restore_state(document) ==
    [f \in DOMAIN BoltContext_new |->
        IF f \notin Range(SaveStateFields) THEN BoltContext_new[f]
        ELSE IF f = "main_col" THEN Collection_from_json(Member(document, f))
        ELSE IF f = "collections"
        THEN LET array == Member(document, f)
             IN  [i \in 1 .. Len(array) |-> Collection_from_json(array[i])]
        ELSE Member(document, f)]

\* the document the launcher writes when there is no state file
create_state ==
    << <<"page", "Home">>,
       <<"main_current", 0>>,
       <<"col_current", <<0, 0>> >>,
       <<"main_col",
         << <<"name", "New Collection ">>,
            <<"requests",
              << << <<"url", "">>, <<"body", "">>, <<"headers", << <<"", "">> >> >>,
                    <<"params", << <<"", "">> >> >>, <<"method", "GET">>,
                    <<"response",
                      << <<"status", 0>>, <<"body", "">>, <<"headers", <<>> >>,
                         <<"time", 0>>, <<"size", 0>>, <<"response_type", "TEXT">>,
                         <<"request_index", 0>>, <<"failed", FALSE>> >> >>,
                    <<"name", "New Request ">>, <<"req_tab", 1>>, <<"resp_tab", 1>> >> >> >>,
            <<"collapsed", FALSE>> >> >>,
       <<"collections", <<>> >> >>

----------------------------------------------------------------------------
(* Initial states: the state BoltApp::create leaves, or a saved state that
   main restores, built here by the handlers that produce it *)

Fresh == create(BoltContext_new)

\* two requests in the working collection, the first with a second header and param row
TwoRequests == AddParam(AddHeader(AddRequest(Fresh).b).b).b

OneCollection ==
    AddToCollection(AddToCollection(AddCollection(Fresh).b, 0).b, 0).b

TwoCollections ==
    SwitchPage(AddToCollection(AddCollection(OneCollection).b, 1).b, Collections).b

SavedStates == {TwoRequests, OneCollection, TwoCollections}

Idle == [pc |-> "idle"]

----------------------------------------------------------------------------
(* History of the selections: one entry per request, kept in step with the lists
   of bctx.  `at` is the index the request was last selected at (-1: never),
   `answered` whether a response was written into it since *)

Never == [at |-> -1, answered |-> FALSE]

NeverSelected(b) ==
    [main |-> [i \in 1 .. Len(b.main_col.requests) |-> Never],
     cols |-> [c \in 1 .. Len(b.collections) |->
                  [i \in 1 .. Len(b.collections[c].requests) |-> Never]]]

NextSelected(sel, b, op, args, ok) ==
    IF ~ok THEN sel
    ELSE CASE op = "AddRequest" -> [sel EXCEPT !.main = Append(@, Never)]
           [] op = "AddCollection" -> [sel EXCEPT !.cols = Append(@, <<>>)]
           [] op = "AddToCollection" ->
                  [sel EXCEPT !.cols[args[1] + 1] = Append(@, Never)]
           [] op = "RemoveRequest" -> [sel EXCEPT !.main = RemoveAt(@, args[1])]
           [] op = "RemoveCollection" -> [sel EXCEPT !.cols = RemoveAt(@, args[1])]
           [] op = "RemoveFromCollection" ->
                  [sel EXCEPT !.cols[args[1] + 1] = RemoveAt(@, args[2])]
           [] op = "SelectRequest" ->
                  [sel EXCEPT !.main[args[1] + 1] = [at |-> args[1], answered |-> FALSE]]
           [] op = "SelectFromCollection" ->
                  [sel EXCEPT !.cols[args[1] + 1][args[2] + 1] =
                                  [at |-> args[2], answered |-> FALSE]]
           [] op = "receive_response" ->
                  IF b.page = Home
                  THEN [sel EXCEPT !.main[args[1].request_index + 1].answered = TRUE]
                  ELSE [sel EXCEPT !.cols[b.col_current[1] + 1][b.col_current[2] + 1]
                                       .answered = TRUE]
           [] OTHER -> sel

Init ==
    /\ bctx \in {Fresh, restore_state(create_state)} \cup SavedStates
    /\ inflight = EmptyBag
    /\ updates = 0
    /\ panicked = FALSE
    /\ last = [op |-> "create", args |-> <<>>, ret |-> TRUE]
    /\ steps = 0
    /\ edits = 0
    /\ selected = NeverSelected(bctx)
    /\ lock = "none"
    /\ ui = Idle
    /\ rx = Idle

----------------------------------------------------------------------------
(* BoltApp::update: lock GLOBAL_STATE, run process, unlock; one step *)

RECURSIVE SeqToBag(_)
SeqToBag(s) == IF s = <<>> THEN EmptyBag ELSE SetToBag({Head(s)}) (+) SeqToBag(Tail(s))

CanRun == ~panicked /\ steps < MaxSteps /\ lock = "none"

\* the handlers MaxEdits counts
EditOps ==
    {"Nothing", "SelectedMethod", "HelpPressed", "ReqBodyPressed", "ReqHeadersPressed",
     "ReqParamsPressed", "RespBodyPressed", "RespHeadersPressed", "ReceivedResponse",
     "AddHeader", "RemoveHeader", "AddParam", "RemoveParam", "MethodChanged",
     "UrlChanged", "BodyChanged", "HeaderChanged", "ParamChanged", "ToggleCollapsed"}

Apply(op, args, r) ==
    /\ CanRun
    /\ op \in EditOps => edits < MaxEdits
    /\ edits' = IF op \in EditOps THEN edits + 1 ELSE edits
    /\ bctx' = r.b
    /\ panicked' = ~r.ok
    /\ inflight' = inflight (+) SeqToBag(r.sent)
    /\ last' = [op |-> op, args |-> args, ret |-> r.ret]
    /\ steps' = steps + 1
    /\ selected' = NextSelected(selected, bctx, op, args, r.ok)
    /\ UNCHANGED <<updates, lock, ui, rx>>

\* index arguments: every index of the list and the first one past its end
Indices(s) == 0 .. Len(s)

ReqIndices(b, c) ==
    IF InRange(b.collections, c) THEN Indices(At(b.collections, c).requests) ELSE {0}

RowIndices(b, field) ==
    IF TargetOk(b) THEN Indices(Target(b)[field]) ELSE {0}

UiNothing == Apply("Nothing", <<>>, Nothing(bctx))

UiSelectedMethod == \E meth \in Methods :
    Apply("SelectedMethod", <<meth>>, SelectedMethod(bctx, meth))

UiSendPressed ==
    /\ BagCardinality(inflight) < MaxInFlight
    /\ Apply("SendPressed", <<>>, SendPressed(bctx))

UiHelpPressed == Apply("HelpPressed", <<>>, HelpPressed(bctx))

UiReqBodyPressed == Apply("ReqBodyPressed", <<>>, ReqBodyPressed(bctx))

UiReqHeadersPressed == Apply("ReqHeadersPressed", <<>>, ReqHeadersPressed(bctx))

UiReqParamsPressed == Apply("ReqParamsPressed", <<>>, ReqParamsPressed(bctx))

UiRespBodyPressed == Apply("RespBodyPressed", <<>>, RespBodyPressed(bctx))

UiRespHeadersPressed == Apply("RespHeadersPressed", <<>>, RespHeadersPressed(bctx))

UiReceivedResponse == Apply("ReceivedResponse", <<>>, ReceivedResponse(bctx))

UiAddHeader == Apply("AddHeader", <<>>, AddHeader(bctx))

UiRemoveHeader == \E index \in RowIndices(bctx, "headers") :
    Apply("RemoveHeader", <<index>>, RemoveHeader(bctx, index))

UiAddParam == Apply("AddParam", <<>>, AddParam(bctx))

UiAddCollection == Apply("AddCollection", <<>>, AddCollection(bctx))

UiRemoveCollection == \E index \in Indices(bctx.collections) :
    Apply("RemoveCollection", <<index>>, RemoveCollection(bctx, index))

UiRemoveParam == \E index \in RowIndices(bctx, "params") :
    Apply("RemoveParam", <<index>>, RemoveParam(bctx, index))

UiMethodChanged == \E method \in Methods :
    Apply("MethodChanged", <<method>>, MethodChanged(bctx, method))

UiUrlChanged == \E url \in Urls :
    Apply("UrlChanged", <<url>>, UrlChanged(bctx, url))

UiBodyChanged == \E body \in Bodies :
    Apply("BodyChanged", <<body>>, BodyChanged(bctx, body))

UiHeaderChanged == \E index \in RowIndices(bctx, "headers"), header \in Rows :
    Apply("HeaderChanged", <<index, header>>, HeaderChanged(bctx, index, header))

UiParamChanged == \E index \in RowIndices(bctx, "params"), param \in Rows :
    Apply("ParamChanged", <<index, param>>, ParamChanged(bctx, index, param))

UiAddRequest == Apply("AddRequest", <<>>, AddRequest(bctx))

UiAddToCollection == \E index \in Indices(bctx.collections) :
    Apply("AddToCollection", <<index>>, AddToCollection(bctx, index))

UiToggleCollapsed == \E index \in Indices(bctx.collections) :
    Apply("ToggleCollapsed", <<index>>, ToggleCollapsed(bctx, index))

UiRemoveRequest == \E index \in Indices(bctx.main_col.requests) :
    Apply("RemoveRequest", <<index>>, RemoveRequest(bctx, index))

UiRemoveFromCollection ==
    \E col_index \in Indices(bctx.collections) :
        \E req_index \in ReqIndices(bctx, col_index) :
            Apply("RemoveFromCollection", <<col_index, req_index>>,
                  RemoveFromCollection(bctx, col_index, req_index))

UiSelectRequest == \E index \in Indices(bctx.main_col.requests) :
    Apply("SelectRequest", <<index>>, SelectRequest(bctx, index))

UiSelectFromCollection ==
    \E col_index \in Indices(bctx.collections) :
        \E req_index \in ReqIndices(bctx, col_index) :
            Apply("SelectFromCollection", <<col_index, req_index>>,
                  SelectFromCollection(bctx, col_index, req_index))

\* Msg::Update reaches update only through link.send_message in receive_response
UiUpdate ==
    /\ updates > 0
    /\ CanRun
    /\ bctx' = Update(bctx).b
    /\ updates' = updates - 1
    /\ last' = [op |-> "Update", args |-> <<>>, ret |-> Update(bctx).ret]
    /\ steps' = steps + 1
    /\ UNCHANGED <<inflight, panicked, edits, selected, lock, ui, rx>>

UiSwitchPage == \E page \in Pages :
    Apply("SwitchPage", <<page>>, SwitchPage(bctx, page))

\* variant: receive_response returns without link.send_message
Notify_None(ok, queued) == queued

\* link.send_message(Msg::Update), reached when the write did not panic
Notify(ok, queued) == IF ok THEN queued + 1 ELSE queued

\* the listener task: one executor reply arrives and receive_response handles it
Receive ==
    \E payload \in BagToSet(inflight) : \E data \in ExecutorReplies(payload) :
        LET r == receive_response(bctx, data)
        IN  /\ CanRun
            /\ bctx' = r.b
            /\ panicked' = ~r.ok
            /\ inflight' = inflight (-) SetToBag({payload})
            /\ updates' = Notify(r.ok, updates)
            /\ last' = [op |-> "receive_response", args |-> <<data>>, ret |-> r.ret]
            /\ steps' = steps + 1
            /\ selected' = NextSelected(selected, bctx, "receive_response", <<data>>, r.ok)
            /\ UNCHANGED <<edits, lock, ui, rx>>

\* the events of the user interface: one Msg each, handled by update
UiEvents ==
    \/ UiNothing
    \/ UiSelectedMethod
    \/ UiSendPressed
    \/ UiHelpPressed
    \/ UiReqBodyPressed
    \/ UiReqHeadersPressed
    \/ UiReqParamsPressed
    \/ UiRespBodyPressed
    \/ UiRespHeadersPressed
    \/ UiReceivedResponse
    \/ UiAddHeader
    \/ UiRemoveHeader
    \/ UiAddParam
    \/ UiAddCollection
    \/ UiRemoveCollection
    \/ UiRemoveParam
    \/ UiMethodChanged
    \/ UiUrlChanged
    \/ UiBodyChanged
    \/ UiHeaderChanged
    \/ UiParamChanged
    \/ UiAddRequest
    \/ UiAddToCollection
    \/ UiToggleCollapsed
    \/ UiRemoveRequest
    \/ UiRemoveFromCollection
    \/ UiSelectRequest
    \/ UiSelectFromCollection
    \/ UiSwitchPage

Next ==
    \/ UiEvents
    \/ UiUpdate
    \/ Receive

Spec == Init /\ [][Next]_vars

----------------------------------------------------------------------------
(* Delivery of Msg::Update.  link.send_message queues the message and yew runs
   its queue at the end of the current task, before the browser hands the next
   user event or the next executor reply to the application.  SpecLive states
   that scheduling: while a message is queued nothing else runs, and a queued
   message is delivered. *)

DeliverUpdate ==
    /\ updates > 0
    /\ ~panicked
    /\ lock = "none"
    /\ bctx' = Update(bctx).b
    /\ updates' = updates - 1
    /\ last' = [op |-> "Update", args |-> <<>>, ret |-> Update(bctx).ret]
    /\ UNCHANGED <<inflight, panicked, steps, edits, selected, lock, ui, rx>>

QueueEmpty == updates = 0

NextLive ==
    \/ QueueEmpty /\ UiEvents
    \/ QueueEmpty /\ Receive
    \/ DeliverUpdate

SpecLive == Init /\ [][NextLive]_vars /\ WF_vars(DeliverUpdate)

----------------------------------------------------------------------------
(* The two paths into GLOBAL_STATE, statement by statement: BoltApp::update
   (lock, process, drop of the guard) and receive_response (lock, write of the
   response, link.send_message, drop of the guard).  process is split where an
   arm writes twice, so that a state in the middle of a transition exists. *)

Msg(op, args) == [op |-> op, args |-> args]

process(b, msg) ==
    CASE msg.op = "SendPressed" -> SendPressed(b)
      [] msg.op = "UrlChanged" -> UrlChanged(b, msg.args[1])
      [] msg.op = "RemoveCollection" -> RemoveCollection(b, msg.args[1])
      [] msg.op = "RemoveRequest" -> RemoveRequest(b, msg.args[1])
      [] msg.op = "SelectRequest" -> SelectRequest(b, msg.args[1])
      [] msg.op = "SwitchPage" -> SwitchPage(b, msg.args[1])

\* an arm up to and including its first write (the whole arm when it writes once)
FirstWrite(b, msg) ==
    CASE msg.op = "UrlChanged" ->
             IF TargetOk(b)
             THEN Done(WithTarget(b, [Target(b) EXCEPT !.url = msg.args[1]]), TRUE)
             ELSE Panic(b)
      [] msg.op = "RemoveCollection" ->
             IF InRange(b.collections, msg.args[1])
             THEN Done([b EXCEPT !.collections = RemoveAt(@, msg.args[1])], TRUE)
             ELSE Panic(b)
      [] msg.op = "RemoveRequest" ->
             IF InRange(b.main_col.requests, msg.args[1])
             THEN Done([b EXCEPT !.main_col.requests = RemoveAt(@, msg.args[1])], TRUE)
             ELSE Panic(b)
      [] msg.op = "SelectRequest" -> Done([b EXCEPT !.main_current = msg.args[1]], TRUE)
      [] OTHER -> process(b, msg)

\* the rest of the arm, run on the state as it is after the first write
SecondWrite(b, msg) ==
    CASE msg.op = "UrlChanged" ->
             IF TargetOk(b)
             THEN Done(WithTarget(b, [Target(b) EXCEPT !.name = msg.args[1]]), TRUE)
             ELSE Panic(b)
      [] msg.op = "RemoveCollection" -> Done([b EXCEPT !.col_current = <<0, 0>>], TRUE)
      [] msg.op = "RemoveRequest" ->
             Done([b EXCEPT !.main_current =
                                ClampMainCurrent(Len(b.main_col.requests), @)], TRUE)
      [] msg.op = "SelectRequest" ->
             IF InRange(b.main_col.requests, msg.args[1])
             THEN Done([b EXCEPT !.main_col.requests[msg.args[1] + 1]
                                     .response.request_index = msg.args[1]], TRUE)
             ELSE Panic(b)
      [] OTHER -> Done(b, TRUE)

\* the messages the statement-level specification draws from
LockMsgs(b) ==
    {Msg("SendPressed", <<>>)}
    \cup {Msg("UrlChanged", <<url>>) : url \in Urls}
    \cup {Msg("RemoveCollection", <<i>>) : i \in Indices(b.collections)}
    \cup {Msg("RemoveRequest", <<i>>) : i \in Indices(b.main_col.requests)}
    \cup {Msg("SelectRequest", <<i>>) : i \in Indices(b.main_col.requests)}
    \cup {Msg("SwitchPage", <<page>>) : page \in Pages}

\* GLOBAL_STATE.lock() returns once no one holds the mutex
\* a lock() that does not wait for the holder
UiLockFree_Always == TRUE

UiLockFree == lock = "none"

RxLockFree_Always == TRUE

RxLockFree == lock = "none"

\* update, line 248: let mut state = GLOBAL_STATE.lock().unwrap()
UiLock ==
    \E msg \in LockMsgs(bctx) :
        /\ ~panicked /\ steps < MaxSteps
        /\ ui.pc = "idle"
        /\ UiLockFree
        /\ msg.op = "SendPressed" => BagCardinality(inflight) < MaxInFlight
        /\ lock' = "ui"
        /\ ui' = [pc |-> "locked", msg |-> msg, seen |-> bctx]
        /\ steps' = steps + 1
        /\ UNCHANGED <<bctx, inflight, updates, panicked, last, edits, selected, rx>>

\* update, line 250: process up to its first write
UiFirstWrite ==
    /\ ~panicked
    /\ ui.pc = "locked"
    /\ LET r == FirstWrite(bctx, ui.msg)
       IN  /\ bctx' = r.b
           /\ panicked' = ~r.ok
           /\ inflight' = inflight (+) SeqToBag(r.sent)
    /\ ui' = [ui EXCEPT !.pc = "half"]
    /\ UNCHANGED <<updates, last, steps, edits, selected, lock, rx>>

\* update, line 250: the rest of process, and its return
UiRest ==
    /\ ~panicked
    /\ ui.pc = "half"
    /\ LET r == SecondWrite(bctx, ui.msg)
       IN  /\ bctx' = r.b
           /\ panicked' = ~r.ok
           /\ last' = [op |-> ui.msg.op, args |-> ui.msg.args, ret |-> r.ret]
    /\ ui' = [ui EXCEPT !.pc = "done"]
    /\ UNCHANGED <<inflight, updates, steps, edits, selected, lock, rx>>

\* update, line 251: the guard is dropped
UiUnlock ==
    /\ ~panicked
    /\ ui.pc = "done"
    /\ lock' = IF lock = "ui" THEN "none" ELSE lock
    /\ ui' = Idle
    /\ UNCHANGED <<bctx, inflight, updates, panicked, last, steps, edits, selected, rx>>

\* receive_response, line 295: let mut state = GLOBAL_STATE.lock().unwrap()
RxLock ==
    \E payload \in BagToSet(inflight) : \E data \in ExecutorReplies(payload) :
        /\ ~panicked /\ steps < MaxSteps
        /\ rx.pc = "idle"
        /\ RxLockFree
        /\ lock' = "rx"
        /\ inflight' = inflight (-) SetToBag({payload})
        /\ rx' = [pc |-> "locked", data |-> data, seen |-> bctx]
        /\ steps' = steps + 1
        /\ UNCHANGED <<bctx, updates, panicked, last, edits, selected, ui>>

\* receive_response, lines 300-315: transform and write
RxWrite ==
    /\ ~panicked
    /\ rx.pc = "locked"
    /\ LET r == receive_response(bctx, rx.data)
       IN  /\ bctx' = r.b
           /\ panicked' = ~r.ok
           /\ last' = [op |-> "receive_response", args |-> <<rx.data>>, ret |-> r.ret]
    /\ rx' = [rx EXCEPT !.pc = "written"]
    /\ UNCHANGED <<inflight, updates, steps, edits, selected, lock, ui>>

\* receive_response, lines 317-319: link.send_message(Msg::Update)
RxNotify ==
    /\ ~panicked
    /\ rx.pc = "written"
    /\ updates' = updates + 1
    /\ rx' = [rx EXCEPT !.pc = "notified"]
    /\ UNCHANGED <<bctx, inflight, panicked, last, steps, edits, selected, lock, ui>>

\* receive_response, line 320: the guard is dropped
RxUnlock ==
    /\ ~panicked
    /\ rx.pc = "notified"
    /\ lock' = IF lock = "rx" THEN "none" ELSE lock
    /\ rx' = Idle
    /\ UNCHANGED <<bctx, inflight, updates, panicked, last, steps, edits, selected, ui>>

NextLock ==
    \/ UiLock
    \/ UiFirstWrite
    \/ UiRest
    \/ UiUnlock
    \/ RxLock
    \/ RxWrite
    \/ RxNotify
    \/ RxUnlock

SpecLock == Init /\ [][NextLock]_vars

----------------------------------------------------------------------------
(* Properties *)

\* the handler that ran last was receive_response and it did not panic
Arrived == last.op = "receive_response" /\ ~panicked

\* the handler that ran last was `op` and it did not panic
Ran(op) == last.op = op /\ ~panicked

\* every request of a list but the one at index i is what it was
OthersKept(before, after, i) ==
    /\ Len(after) = Len(before)
    /\ \A j \in 0 .. Len(before) - 1 : j # i => At(after, j) = At(before, j)

\* C1 (as stated): a response that arrives on the Home page is stored in the
\* request main_current selects, whatever index it carries.
C1_StoredAtSelection ==
    (Arrived /\ bctx.page = Home /\ TargetOk(bctx))
        => Target(bctx).response = TransformBody(last.args[1])

\* C1 (amended): a response that arrives on the Home page is stored in
\* main_col.requests[request_index], the index it carries, and no other request of
\* the working collection, the selection or the named collections change; so after
\* SelectRequest(0), SendPressed, SelectRequest(1) the response lands in request 0.
C1_StoredAtPayloadIndex ==
    [][(Arrived' /\ bctx.page = Home) =>
        LET data == last'.args[1]
            i == data.request_index
        IN  /\ At(bctx'.main_col.requests, i).response = TransformBody(data)
            /\ At(bctx'.main_col.requests, i) =
                   [At(bctx.main_col.requests, i) EXCEPT !.response = TransformBody(data)]
            /\ OthersKept(bctx.main_col.requests, bctx'.main_col.requests, i)
            /\ bctx'.collections = bctx.collections
            /\ bctx'.main_current = bctx.main_current
            /\ bctx'.page = Home]_vars

\* C1 witness: the response carrying index 0 arrived while request 1 was selected;
\* request 0 holds it and request 1 still has its unsent response.
C1_Witness ==
    /\ Arrived
    /\ bctx.page = Home
    /\ Len(bctx.main_col.requests) = 2
    /\ bctx.main_current = 1
    /\ last.args[1].request_index = 0
    /\ At(bctx.main_col.requests, 0).response = TransformBody(last.args[1])
    /\ At(bctx.main_col.requests, 1).response = [Response_new EXCEPT !.request_index = 1]

\* C2: a response that arrives on the Collections page is stored in the entry
\* col_current selects, whatever index it carries; every other entry, the working
\* collection and the selection are unchanged.
C2_StoredAtCollectionSelection ==
    [][(Arrived' /\ bctx.page = Collections) =>
        LET data == last'.args[1]
            c == bctx.col_current[1]
            r == bctx.col_current[2]
        IN  /\ bctx'.col_current = bctx.col_current
            /\ bctx'.page = Collections
            /\ Target(bctx') = [Target(bctx) EXCEPT !.response = TransformBody(data)]
            /\ OthersKept(bctx.collections, bctx'.collections, c)
            /\ OthersKept(At(bctx.collections, c).requests,
                          At(bctx'.collections, c).requests, r)
            /\ bctx'.main_col = bctx.main_col]_vars

\* C2 witness: the response carries the index of another entry of the selected
\* collection, the selected entry holds it and that other entry is still unsent.
C2_Witness ==
    /\ Arrived
    /\ bctx.page = Collections
    /\ last.args[1].request_index # bctx.col_current[2]
    /\ Target(bctx).response = TransformBody(last.args[1])
    /\ LET requests == At(bctx.collections, bctx.col_current[1]).requests
           i == last.args[1].request_index
       IN  /\ InRange(requests, i)
           /\ At(requests, i).response.status = 0
           /\ At(requests, i).response.request_index = i

\* the payload a step added to the bag of payloads in flight
NewPayloads ==
    { p \in BagToSet(inflight') : CopiesIn(p, inflight') = CopiesIn(p, inflight) + 1 }

\* C3: SelectRequest(i) and SelectFromCollection(c, i) set the selected request's
\* response.request_index to i, and a SendPressed that follows at once on the page
\* of that request hands over one payload whose index is i.
C3_SelectStampsSendCarries ==
    [][/\ Ran("SelectRequest")' =>
            At(bctx'.main_col.requests, last'.args[1]).response.request_index
                = last'.args[1]
       /\ Ran("SelectFromCollection")' =>
            At(At(bctx'.collections, last'.args[1]).requests, last'.args[2])
                .response.request_index = last'.args[2]
       /\ (Ran("SelectRequest") /\ bctx.page = Home /\ last'.op = "SendPressed") =>
            /\ ~panicked'
            /\ \E p \in NewPayloads : NewPayloads = {p} /\ p.index = last.args[1]
       /\ (Ran("SelectFromCollection") /\ bctx.page = Collections
              /\ last'.op = "SendPressed") =>
            /\ ~panicked'
            /\ \E p \in NewPayloads : NewPayloads = {p} /\ p.index = last.args[2]]_vars

\* C3 witness: request 1 of the working collection was selected and then sent; the
\* payload in flight carries index 1.
C3_Witness ==
    /\ Ran("SendPressed")
    /\ bctx.page = Home
    /\ bctx.main_current = 1
    /\ Target(bctx).response.request_index = 1
    /\ \E p \in BagToSet(inflight) : p.index = 1

\* C4: main_current is an index of the working collection whenever that collection
\* is not empty, after every run of handlers none of which panicked.
C4_MainCurrentInRange ==
    (~panicked /\ Len(bctx.main_col.requests) > 0)
        => bctx.main_current < Len(bctx.main_col.requests)

\* C4 witness: the request selected at index 1 is the only one left after
\* RemoveRequest(0), and main_current was clamped to 0.
C4_Witness ==
    /\ Ran("RemoveRequest")
    /\ last.args = <<0>>
    /\ Len(bctx.main_col.requests) = 1
    /\ At(bctx.main_col.requests, 0).response.request_index = 1
    /\ bctx.main_current = 0

\* C5: after RemoveCollection(c) or RemoveFromCollection(c, r) with valid indices
\* col_current is [0, 0].
C5_RemovalResetsSelection ==
    (Ran("RemoveCollection") \/ Ran("RemoveFromCollection"))
        => bctx.col_current = <<0, 0>>

\* C5 witness: entry (0, 1) had been selected, then a request of collection 1 was
\* removed: the selection is [0, 0] although entry (0, 1) is still there.
C5_Witness ==
    /\ Ran("RemoveFromCollection")
    /\ last.args = <<1, 0>>
    /\ bctx.col_current = <<0, 0>>
    /\ Len(bctx.collections) = 2
    /\ Len(At(bctx.collections, 0).requests) = 2
    /\ At(At(bctx.collections, 0).requests, 1).response.request_index = 1

\* every request of the working collection and of the named collections
AllRequests(b) ==
    { At(b.main_col.requests, i) : i \in 0 .. Len(b.main_col.requests) - 1 }
    \cup UNION { { At(At(b.collections, c).requests, i) :
                      i \in 0 .. Len(At(b.collections, c).requests) - 1 } :
                 c \in 0 .. Len(b.collections) - 1 }

RowsNonEmpty(b) == \A req \in AllRequests(b) : req.headers # <<>> /\ req.params # <<>>

\* C6 (as stated): every request always has a header row and a param row.
C6_RowsNeverEmpty == RowsNonEmpty(bctx)

\* C6 (amended): RemoveHeader(i) and RemoveParam(i) with a valid i on a list of one
\* row leave that list of the active request empty; every other step (a removal
\* from a longer list included) keeps a header row and a param row in every request.
C6_OnlyLastRowRemovalEmpties ==
    [][RowsNonEmpty(bctx) =>
        IF Ran("RemoveHeader")' /\ Len(Target(bctx).headers) = 1
        THEN Target(bctx') = [Target(bctx) EXCEPT !.headers = <<>>]
        ELSE IF Ran("RemoveParam")' /\ Len(Target(bctx).params) = 1
        THEN Target(bctx') = [Target(bctx) EXCEPT !.params = <<>>]
        ELSE RowsNonEmpty(bctx')]_vars

\* C6 witness: RemoveHeader(0) ran on a request with two header rows and left one.
C6_Witness ==
    /\ Ran("RemoveHeader")
    /\ last.args = <<0>>
    /\ Len(Target(bctx).headers) = 1
    /\ Len(Target(bctx).params) = 2

\* C7: the active request exists after every run of handlers none of which
\* panicked (all index arguments valid).
C7_TargetResolvable == ~panicked => TargetOk(bctx)

\* C8: a handler that panics on an index out of bounds leaves bctx as it was.
C8_PanicKeepsState == [][panicked' => bctx' = bctx]_vars

\* C9: the stored response has the body highlight_body(format_json(body)) when the
\* response is JSON and the incoming body when it is TEXT; every other field is the
\* incoming one.
C9_StoredBody ==
    Arrived =>
        LET data == last.args[1]
            stored == IF bctx.page = Home
                      THEN At(bctx.main_col.requests, data.request_index).response
                      ELSE Target(bctx).response
        IN  /\ stored.body = IF data.response_type = JSON
                             THEN highlight_body(format_json(data.body))
                             ELSE data.body
            /\ data.response_type = JSON => stored.body # data.body
            /\ \A f \in DOMAIN data \ {"body"} : stored[f] = data[f]

\* C9 witness: a JSON response arrived and is stored with the transformed body.
C9_Witness ==
    /\ Arrived
    /\ last.args[1].response_type = JSON
    /\ bctx.page = Home
    /\ At(bctx.main_col.requests, last.args[1].request_index).response.body
           = "highlight_body(format_json({}))"

\* a path is between its lock() and the drop of its guard
InSection(p) == p.pc # "idle"

\* C10: update and receive_response are never both between lock() and the drop of
\* the guard; the one inside holds the mutex; and what each leaves in bctx is its
\* whole transition applied to the state it found when it locked, so neither ran
\* on, or wrote over, a half-applied transition of the other.
C10_Serialized ==
    /\ ~(InSection(ui) /\ InSection(rx))
    /\ InSection(ui) => lock = "ui"
    /\ InSection(rx) => lock = "rx"
    /\ ui.pc = "locked" => bctx = ui.seen
    /\ ui.pc = "half" => bctx = FirstWrite(ui.seen, ui.msg).b
    /\ ui.pc = "done" => bctx = process(ui.seen, ui.msg).b
    /\ (ui.pc \in {"half", "done"} /\ panicked) => ~process(ui.seen, ui.msg).ok
    /\ ui.pc = "done" => (panicked <=> ~process(ui.seen, ui.msg).ok)
    /\ rx.pc = "locked" => bctx = rx.seen
    /\ rx.pc \in {"written", "notified"} => bctx = receive_response(rx.seen, rx.data).b

\* C10 witness: update is in the middle of a transition (its first write made,
\* its second not yet), holding the mutex, while a payload is in flight whose
\* response may arrive at any moment.
C10_Witness ==
    /\ ui.pc = "half"
    /\ ~panicked
    /\ bctx # ui.seen
    /\ bctx # process(ui.seen, ui.msg).b
    /\ lock = "ui"
    /\ rx.pc = "idle"
    /\ inflight # EmptyBag

\* C11: the default seed state, as BoltApp::create leaves it and as the launcher
\* writes it, has page Home, main_current 0, col_current [0, 0], no collections and
\* one default request in the working collection, named "New Request 1".
C11_DefaultSeed ==
    (steps = 0 /\ bctx \in {Fresh, restore_state(create_state)}) =>
        /\ bctx.page = Home
        /\ bctx.main_current = 0
        /\ bctx.col_current = <<0, 0>>
        /\ bctx.collections = <<>>
        /\ Len(bctx.main_col.requests) = 1
        /\ At(bctx.main_col.requests, 0) = [Request_new EXCEPT !.name = "New Request 1"]

C13_SendKeepsState ==
    [][(last'.op = "SendPressed" /\ ~panicked') =>
        /\ bctx' = bctx
        /\ BagCardinality(inflight') = BagCardinality(inflight) + 1
        /\ \E p \in NewPayloads :
              /\ NewPayloads = {p}
              /\ p.method = Target(bctx).method
              /\ p.body = Target(bctx).body
              /\ p.headers = Target(bctx).headers
              /\ p.url = parse_url(Target(bctx).url, Target(bctx).params)]_vars

\* C13 witness: the request sent has a param row k=v and no url; the payload in
\* flight has the url "?k=v".
C13_Witness ==
    /\ Ran("SendPressed")
    /\ Target(bctx).url = ""
    /\ <<"k", "v">> \in Range(Target(bctx).params)
    /\ \E p \in BagToSet(inflight) : p.url = "?k=v" /\ p.headers = Target(bctx).headers

\* the field edits and the field each names
FieldEdits == {"UrlChanged", "BodyChanged", "MethodChanged", "SelectedMethod",
               "HeaderChanged", "ParamChanged"}

FieldOf(op) ==
    CASE op = "UrlChanged" -> "url"
      [] op = "BodyChanged" -> "body"
      [] op \in {"MethodChanged", "SelectedMethod"} -> "method"
      [] op = "HeaderChanged" -> "headers"
      [] op = "ParamChanged" -> "params"

\* the fields of the active request a step changed
ChangedFields == { f \in DOMAIN Target(bctx) : Target(bctx')[f] # Target(bctx)[f] }

\* a step that ran the field edit last' names wrote the value it was given, changed
\* nothing of the active request outside `allowed`, no row but the one edited, no
\* other request and no navigation state
EditTouchesOnly(allowed) ==
    LET op == last'.op
        f == FieldOf(op)
    IN  /\ ChangedFields \subseteq allowed
        /\ bctx' = WithTarget(bctx, Target(bctx'))
        /\ IF op \in {"HeaderChanged", "ParamChanged"}
           THEN /\ At(Target(bctx')[f], last'.args[1]) = last'.args[2]
                /\ OthersKept(Target(bctx)[f], Target(bctx')[f], last'.args[1])
           ELSE Target(bctx')[f] = last'.args[1]

\* C14 (as stated): a field edit changes only the field it names.
C14_EditChangesOnlyNamedField ==
    [][(last'.op \in FieldEdits /\ ~panicked') =>
        EditTouchesOnly({FieldOf(last'.op)})]_vars

\* C14 (amended): a field edit changes only the field it names, except UrlChanged,
\* which writes the new url into url and into name; every other field of the active
\* request, every other request and all navigation state are unchanged.
C14_EditChangesNamedFieldUrlAlsoName ==
    [][(last'.op \in FieldEdits /\ ~panicked') =>
        /\ EditTouchesOnly(IF last'.op = "UrlChanged" THEN {"url", "name"}
                           ELSE {FieldOf(last'.op)})
        /\ last'.op = "UrlChanged" => Target(bctx').name = last'.args[1]]_vars

\* C14 witness: UrlChanged ran on a request that holds a stored response; the url
\* and the name are the new url.
C14_Witness ==
    /\ Ran("UrlChanged")
    /\ Target(bctx).url = "u"
    /\ Target(bctx).name = "u"
    /\ Target(bctx).response.status = 200

\* the requests of bctx, each with its entry of the selection history
Histories ==
    { <<At(bctx.main_col.requests, i), At(selected.main, i)>> :
          i \in 0 .. Len(bctx.main_col.requests) - 1 }
    \cup UNION { { <<At(At(bctx.collections, c).requests, i), At(At(selected.cols, c), i)>> :
                      i \in 0 .. Len(At(bctx.collections, c).requests) - 1 } :
                 c \in 0 .. Len(bctx.collections) - 1 }

\* C15 (as stated): every request that has been selected has response.request_index
\* equal to the index it was most recently selected at.
C15_IndexIsLastSelection ==
    \A h \in Histories : h[2].at >= 0 => h[1].response.request_index = h[2].at

\* C15 (amended): every request that has been selected, and into which no response
\* was written since, has response.request_index equal to the index it was most
\* recently selected at; a response written into a request replaces its
\* request_index by the index the response carries.
C15_IndexIsLastSelectionUntilAnswered ==
    /\ \A h \in Histories :
          (h[2].at >= 0 /\ ~h[2].answered) => h[1].response.request_index = h[2].at
    /\ Arrived =>
          LET data == last.args[1]
              slot == IF bctx.page = Home THEN At(bctx.main_col.requests, data.request_index)
                      ELSE Target(bctx)
          IN  slot.response.request_index = data.request_index

\* C15 witness: a response has just been written into one request while another,
\* selected at index 1 and not answered since, still carries index 1.
C15_Witness ==
    /\ Arrived
    /\ \E h \in Histories : h[2].answered
    /\ \E h \in Histories :
          h[2].at = 1 /\ ~h[2].answered /\ h[1].response.request_index = 1

NoOps == {"Nothing", "Update", "ReceivedResponse"}

\* C16 (as stated): every no-op action (Nothing, Update, ReceivedResponse) returns
\* the state unchanged and returns needs-redraw = true.
C16_NoOpsRedraw ==
    [][last'.op \in NoOps => (bctx' = bctx /\ ~panicked' /\ last'.ret = TRUE)]_vars

\* C16 (amended): every no-op action returns the state unchanged; Update and
\* ReceivedResponse return needs-redraw = true, Nothing returns false.
C16_NoOpsKeepStateNothingNoRedraw ==
    [][last'.op \in NoOps =>
          /\ bctx' = bctx
          /\ ~panicked'
          /\ inflight' = inflight
          /\ last'.ret = (last'.op # "Nothing")]_vars

\* C16 witness: Nothing has run, on a state that holds a stored response, and
\* returned false.
C16_Witness ==
    /\ Ran("Nothing")
    /\ last.ret = FALSE
    /\ \E req \in AllRequests(bctx) : req.response.status = 200

\* C17: every response arrival that writes a response sends exactly one
\* Msg::Update after the write, and that message is eventually processed,
\* returning true without changing the state.
C17_ArrivalIsRedrawn ==
    /\ [][(last'.op = "receive_response" /\ ~panicked') => updates' = updates + 1]_vars
    /\ [][last'.op = "Update" =>
             (updates' = updates - 1 /\ bctx' = bctx /\ last'.ret = TRUE)]_vars
    /\ (Arrived /\ updates > 0) ~> (Ran("Update") /\ updates = 0)

\* C17 witness: the Msg::Update of an arrival that stored a response has been
\* processed and none is queued.
C17_Witness ==
    /\ Ran("Update")
    /\ updates = 0
    /\ last.ret = TRUE
    /\ \E req \in AllRequests(bctx) : req.response.status = 200

\* `after` is `before` with one element appended
AppendedOne(before, after) ==
    /\ Len(after) = Len(before) + 1
    /\ \A j \in 0 .. Len(before) - 1 : At(after, j) = At(before, j)

\* C18: AddRequest, AddCollection and AddToCollection(c) append exactly one element
\* at the end of the named list: the elements already present keep index and
\* content, nothing else changes, page, main_current and col_current are
\* unchanged, and a resolvable active request is the same request afterwards.
C18_AddAppendsOne ==
    [][(last'.op \in {"AddRequest", "AddCollection", "AddToCollection"} /\ ~panicked') =>
          /\ bctx'.page = bctx.page
          /\ bctx'.main_current = bctx.main_current
          /\ bctx'.col_current = bctx.col_current
          /\ (TargetOk(bctx) => TargetOk(bctx') /\ Target(bctx') = Target(bctx))
          /\ last'.op = "AddRequest" =>
                /\ AppendedOne(bctx.main_col.requests, bctx'.main_col.requests)
                /\ bctx' = [bctx EXCEPT !.main_col.requests = bctx'.main_col.requests]
          /\ last'.op = "AddCollection" =>
                /\ AppendedOne(bctx.collections, bctx'.collections)
                /\ bctx' = [bctx EXCEPT !.collections = bctx'.collections]
          /\ last'.op = "AddToCollection" =>
                LET c == last'.args[1]
                IN  /\ AppendedOne(At(bctx.collections, c).requests,
                                   At(bctx'.collections, c).requests)
                    /\ bctx' = [bctx EXCEPT !.collections[c + 1].requests =
                                                At(bctx'.collections, c).requests]]_vars

\* C18 witness: AddRequest has appended a third request while the second one,
\* selected before, is still the active request.
C18_Witness ==
    /\ Ran("AddRequest")
    /\ bctx.page = Home
    /\ bctx.main_current = 1
    /\ Len(bctx.main_col.requests) = 3
    /\ Target(bctx).response.request_index = 1
    /\ At(bctx.main_col.requests, 2).name = "New Request 3"

\* what a response arrival delivered: every field of a response but request_index
Content(req) ==
    [f \in DOMAIN req.response \ {"request_index"} |-> req.response[f]]

Contents(requests) == [i \in 1 .. Len(requests) |-> Content(requests[i])]

CollectionContents(b) ==
    [c \in 1 .. Len(b.collections) |-> Contents(b.collections[c].requests)]

\* the elements of `before` that are still in `after` are as they were: nothing
\* changed, or one element was removed, or one was appended
Survive(before, after) ==
    \/ after = before
    \/ \E i \in 0 .. Len(before) - 1 : after = RemoveAt(before, i)
    \/ AppendedOne(before, after)

\* C19: no user action changes the received content (status, body, headers, time,
\* size, response_type, failed) of the response of a request that is not removed;
\* only a response arrival writes it.
C19_UserActionsKeepResponses ==
    [][last'.op # "receive_response" =>
          /\ Survive(Contents(bctx.main_col.requests), Contents(bctx'.main_col.requests))
          /\ \/ Survive(CollectionContents(bctx), CollectionContents(bctx'))
             \/ /\ Len(bctx'.collections) = Len(bctx.collections)
                /\ \A c \in 1 .. Len(bctx.collections) :
                      Survive(CollectionContents(bctx)[c], CollectionContents(bctx')[c])]_vars

\* C19 witness: a request that holds a received response has been selected again,
\* and the response is still there.
C19_Witness ==
    /\ Ran("SelectRequest")
    /\ bctx.page = Home
    /\ Target(bctx).response.status = 200
    /\ Target(bctx).response.body # ""
    /\ Target(bctx).response.request_index = last.args[1]

\* C20: on the Home page, when Send is pressed the index placed in the payload (the
\* active request's response.request_index) equals main_current, so that the
\* response comes back to the request that was sent.
C20_SendCarriesMainCurrent ==
    (Ran("SendPressed") /\ bctx.page = Home) =>
        send_request(Target(bctx)).index = bctx.main_current

\* C21: a response arrival never addresses a missing slot: after any valid user
\* actions between SendPressed and the arrival, the slot receive_response writes
\* to exists, so receive_response never fails with an index out of bounds.
C21_ArrivalFindsSlot ==
    last.op = "receive_response" =>
        /\ ~panicked
        /\ SlotOk(bctx, TransformBody(last.args[1]))

\* the fields C22 names
Authored(req) ==
    [url |-> req.url, body |-> req.body, headers |-> req.headers,
     params |-> req.params, response |-> req.response]

\* C22: after RemoveRequest(i) with i # main_current, main_col.requests[main_current]
\* is the same request (same url, body, headers, params, response) that was
\* active before the removal.
C22_RemoveOtherKeepsActive ==
    [][(/\ last'.op = "RemoveRequest"
        /\ ~panicked'
        /\ last'.args[1] # bctx.main_current
        /\ InRange(bctx.main_col.requests, bctx.main_current)) =>
          /\ InRange(bctx'.main_col.requests, bctx'.main_current)
          /\ Authored(At(bctx'.main_col.requests, bctx'.main_current)) =
                Authored(At(bctx.main_col.requests, bctx.main_current))]_vars

====
